---- MODULE Spec2Model ----
(***************************************************************************)
(* Model of the v85 ingestion tools.                                       *)
(*                                                                         *)
(*   Databas/import_csv_to_db.py : main, load_current, load_history        *)
(*   get_v85_history.py          : collect_history_rows                    *)
(*                                                                         *)
(* Text values are sequences of one-character strings, so that strip(),    *)
(* str.replace() and the regular expressions are computed character by     *)
(* character.  The letter a-umlaut of the Swedish column labels is written *)
(* as the single element "ae".                                             *)
(***************************************************************************)
EXTENDS Naturals, Sequences, FiniteSets, TLC

VARIABLES
    dir,            \* csv_dir: file name -> directory entry
    dirOk,          \* csv_dir exists and can be listed
    skip_history,   \* args.skip_history of the current run
    pc,             \* position of main()
    db,             \* committed content of the SQLite file
    tx,             \* content as seen through the open connection `con`
    files,          \* rest of the sorted `files` list of the running loop
    p,              \* the file of the running loop iteration
    rows,           \* rest of `rows` still to be written for p
    stats,          \* cur_files, cur_rows, hist_files, hist_rows
    pre,            \* history: db when the run connected
    issued,         \* history: con.execute() calls made by the run
    processed,      \* history: files whose loop iteration finished in the run
    failCause,      \* history: what raised in the run
    lastWrite,      \* history: key -> row of the latest INSERT seen through con
    lastWriteDb,    \* history: the same, as committed
    step,           \* history: the latest finished loop iteration
    prev,           \* history: the two latest committed runs
    runs,           \* number of runs started
    edits,          \* number of changes made to csv_dir
    race,           \* collect_history_rows: the race's starts
    results,        \* collect_history_rows: horse id -> fetched records
    cap,            \* collect_history_rows: max_history_per_horse
    by_horse,       \* collect_history_rows: by_horse
    out,            \* collect_history_rows: returned rows
    ri,             \* collect_history_rows: starts already handled
    rpc             \* collect_history_rows: position

vars == <<dir, dirOk, skip_history, pc, db, tx, files, p, rows, stats, pre,
          issued, processed, failCause, lastWrite, lastWriteDb, step, prev,
          runs, edits, race, results, cap, by_horse, out, ri, rpc>>

importVars == <<dir, dirOk, skip_history, pc, db, tx, files, p, rows, stats,
                pre, issued, processed, failCause, lastWrite, lastWriteDb,
                step, prev, runs, edits>>

retVars == <<race, results, cap, by_horse, out, ri, rpc>>

-----------------------------------------------------------------------------
(* Bounds *)

MaxRuns == 2
MaxEdits == 1
MaxStarts == 2
MaxRecords == 2
MaxCap == 2

-----------------------------------------------------------------------------
(* Text *)

Range(s) == {s[i] : i \in DOMAIN s}

\* Python's None, told apart from every text value (whose elements are single
\* characters).
None == <<"None">>

Digits == {"0", "1", "2", "3", "4", "5", "6", "7", "8", "9"}

Whitespace == {" ", "\t", "\n", "\r"}

\* Code point of the characters that occur in file names and horse names.
Ord(c) ==
    CASE c = "\n" -> 10
      [] c = " " -> 32
      [] c = "." -> 46
      [] c = "0" -> 48 [] c = "1" -> 49 [] c = "2" -> 50 [] c = "3" -> 51
      [] c = "4" -> 52 [] c = "5" -> 53 [] c = "6" -> 54 [] c = "7" -> 55
      [] c = "8" -> 56 [] c = "9" -> 57
      [] c = "O" -> 79 [] c = "T" -> 84
      [] c = "_" -> 95
      [] c = "a" -> 97 [] c = "c" -> 99 [] c = "d" -> 100 [] c = "e" -> 101
      [] c = "h" -> 104 [] c = "i" -> 105 [] c = "n" -> 110 [] c = "o" -> 111
      [] c = "r" -> 114 [] c = "s" -> 115 [] c = "t" -> 116 [] c = "v" -> 118
      [] c = "x" -> 120 [] c = "y" -> 121
      [] OTHER -> 200

\* s < t for str: lexicographic by code point.
RECURSIVE StrLess(_, _)
StrLess(s, t) ==
    IF t = <<>> THEN FALSE
    ELSE IF s = <<>> THEN TRUE
    ELSE IF Ord(Head(s)) # Ord(Head(t)) THEN Ord(Head(s)) < Ord(Head(t))
    ELSE StrLess(Tail(s), Tail(t))

\* sorted(S) for a set of distinct texts.
RECURSIVE Sorted(_)
Sorted(S) ==
    IF S = {} THEN <<>>
    ELSE LET m == CHOOSE x \in S : \A y \in S \ {x} : StrLess(x, y)
         IN  <<m>> \o Sorted(S \ {m})

\* str.strip()
RECURSIVE LStrip(_)
LStrip(s) ==
    IF s # <<>> /\ Head(s) \in Whitespace THEN LStrip(Tail(s)) ELSE s

RECURSIVE RStrip(_)
RStrip(s) ==
    IF s # <<>> /\ s[Len(s)] \in Whitespace
    THEN RStrip(SubSeq(s, 1, Len(s) - 1))
    ELSE s

Strip(s) == RStrip(LStrip(s))

StartsWith(s, pfx) == Len(s) >= Len(pfx) /\ SubSeq(s, 1, Len(pfx)) = pfx

\* s.replace(old, new, 1): the first occurrence only.
Replace1(s, old, new) ==
    LET hits == {i \in 1..(Len(s) - Len(old) + 1) :
                    SubSeq(s, i, i + Len(old) - 1) = old}
    IN  IF hits = {} THEN s
        ELSE LET i == CHOOSE k \in hits : \A j \in hits : k <= j
             IN  SubSeq(s, 1, i - 1) \o new \o SubSeq(s, i + Len(old), Len(s))

\* `x or ""`
OrEmpty(x) == IF x = None THEN <<>> ELSE x

-----------------------------------------------------------------------------
(* File names: CURRENT_RE, HISTORY_RE, yyyymmdd_to_iso, legacy names *)

V85 == <<"v", "8", "5", "_">>
V86 == <<"v", "8", "6", "_">>
V85_HISTORY == V85 \o <<"h", "i", "s", "t", "o", "r", "y", "_">>
V86_HISTORY == V86 \o <<"h", "i", "s", "t", "o", "r", "y", "_">>
DOT_CSV == <<".", "c", "s", "v">>

\* [1-8]
DivisionDigit_mut(c) == c \in Digits

DivisionDigit(c) == c \in {"1", "2", "3", "4", "5", "6", "7", "8"}

\* (\d{8})_([1-8])\.csv and then `$`, which holds at the end of the text and
\* also just before a newline that ends the text.
DateDivCsv(s) ==
    /\ Len(s) \in {14, 15}
    /\ \A i \in 1..8 : s[i] \in Digits
    /\ s[9] = "_"
    /\ DivisionDigit(s[10])
    /\ SubSeq(s, 11, 14) = DOT_CSV
    /\ Len(s) = 15 => s[15] = "\n"

CURRENT_RE(name) ==
    /\ StartsWith(name, V85)
    /\ DateDivCsv(SubSeq(name, Len(V85) + 1, Len(name)))

HISTORY_RE(name) ==
    /\ StartsWith(name, V85_HISTORY)
    /\ DateDivCsv(SubSeq(name, Len(V85_HISTORY) + 1, Len(name)))

\* m.group(1), m.group(2) of a matching name
CurrentDate(name) == SubSeq(name, Len(V85) + 1, Len(V85) + 8)
CurrentAvd(name) == <<name[Len(V85) + 10]>>
HistoryAvd(name) == <<name[Len(V85_HISTORY) + 10]>>

yyyymmdd_to_iso(d) ==
    SubSeq(d, 1, 4) \o <<"-">> \o SubSeq(d, 5, 6) \o <<"-">> \o SubSeq(d, 7, 8)

CurrentLegacy(name) == Replace1(name, V85, V86)

HistoryLegacy(name) == Replace1(name, V85_HISTORY, V86_HISTORY)

-----------------------------------------------------------------------------
(* CSV files: csv.DictReader and the row parameters of the two INSERTs *)

\* Column labels read by load_current
COL_startnummer == <<"s", "t", "a", "r", "t", "n", "u", "m", "m", "e", "r">>
COL_hastnamn == <<"h", "ae", "s", "t", "n", "a", "m", "n">>
COL_kusk == <<"k", "u", "s", "k">>
COL_tranare == <<"t", "r", "ae", "n", "a", "r", "e">>
COL_v85pct == <<"v", "8", "5", "%">>
COL_v_odds == <<"v", "-", "o", "d", "d", "s">>
COL_vagn == <<"v", "a", "g", "n">>
\* Column labels read by load_history only
COL_datum == <<"d", "a", "t", "u", "m">>
COL_bana == <<"b", "a", "n", "a">>
COL_placering == <<"p", "l", "a", "c", "e", "r", "i", "n", "g">>
COL_distans_spar == <<"d", "i", "s", "t", "a", "n", "s", ":", "s", "p", "aa", "r">>
COL_KM_tid == <<"K", "M", "-", "t", "i", "d">>
COL_skor == <<"s", "k", "o", "r">>
COL_odds == <<"o", "d", "d", "s">>
COL_pris == <<"p", "r", "i", "s">>

\* One record of DictReader: dict(zip(fieldnames, row)), a short row filled
\* with restval (None).  The surplus fields of a long row go under the key
\* None, which no r.get(...) of the loaders reads.
RowDict(fieldnames, row) ==
    [k \in Range(fieldnames) |->
        LET last == CHOOSE i \in DOMAIN fieldnames :
                        /\ fieldnames[i] = k
                        /\ \A j \in DOMAIN fieldnames : fieldnames[j] = k => j <= i
        IN  IF last <= Len(row) THEN row[last] ELSE None]

\* list(csv.DictReader(f)) over the records of a file: the first record is
\* the header whatever it holds, empty records are skipped, and a file
\* without any record gives no rows and no error.
DictReader(lines) ==
    IF lines = <<>> THEN <<>>
    ELSE LET fieldnames == Head(lines)
             data == SelectSeq(Tail(lines), LAMBDA r : r # <<>>)
         IN  [i \in 1..Len(data) |-> RowDict(fieldnames, data[i])]

\* r.get(k)
Get(r, k) == IF k \in DOMAIN r THEN r[k] ELSE None

\* (r.get(k) or "").strip()
Field(r, k) == Strip(OrEmpty(Get(r, k)))

\* The parameter tuple of the INSERT INTO v85 (lines 51-62)
CurrentParams(game_date, avd, r, name) ==
    [datum |-> game_date,
     avd |-> avd,
     startnummer |-> Field(r, COL_startnummer),
     hastnamn |-> Field(r, COL_hastnamn),
     kusk |-> Field(r, COL_kusk),
     tranare |-> Field(r, COL_tranare),
     v85_procent |-> Field(r, COL_v85pct),
     v_odds |-> Field(r, COL_v_odds),
     vagn |-> Field(r, COL_vagn),
     source_file |-> name]

\* The parameter tuple of the INSERT INTO v85_history (lines 93-107)
HistoryParams(avd, r, name) ==
    [datum |-> Field(r, COL_datum),
     avd |-> avd,
     hastnamn |-> Field(r, COL_hastnamn),
     bana |-> Field(r, COL_bana),
     kusk |-> Field(r, COL_kusk),
     placering |-> Field(r, COL_placering),
     distans_spor |-> Field(r, COL_distans_spar),
     km_tid |-> Field(r, COL_KM_tid),
     skor |-> Field(r, COL_skor),
     odds |-> Field(r, COL_odds),
     pris |-> Field(r, COL_pris),
     vagn |-> Field(r, COL_vagn),
     source_file |-> name]

-----------------------------------------------------------------------------
(* The two tables.  A table is the sequence of its rows in rowid order; the *)
(* surrogate id itself is not kept.                                         *)

\* The conflict target of the upsert: ON CONFLICT(datum, avd, hastnamn)
Key(r) == <<r.datum, r.avd, r.hastnamn>>

\* DELETE FROM <table> WHERE source_file IN (?, ?)
DeleteBySource_own(table, name, legacy_name) ==
    SelectSeq(table, LAMBDA r : r.source_file # name)

DeleteBySource_legacy(table, name, legacy_name) ==
    SelectSeq(table, LAMBDA r : r.source_file # legacy_name)

DeleteBySource(table, name, legacy_name) ==
    SelectSeq(table, LAMBDA r : r.source_file \notin {name, legacy_name})

\* DO UPDATE SET ...: every column but the key and the id
Overwrite_mut(old, new) ==
    [old EXCEPT !.startnummer = new.startnummer,
                !.kusk = new.kusk,
                !.tranare = new.tranare,
                !.v85_procent = new.v85_procent,
                !.v_odds = new.v_odds,
                !.vagn = new.vagn]

Overwrite(old, new) ==
    [old EXCEPT !.startnummer = new.startnummer,
                !.kusk = new.kusk,
                !.tranare = new.tranare,
                !.v85_procent = new.v85_procent,
                !.v_odds = new.v_odds,
                !.vagn = new.vagn,
                !.source_file = new.source_file]

\* INSERT INTO v85 ... ON CONFLICT(datum, avd, hastnamn) DO UPDATE SET ...
Upsert_mut(table, new) == Append(table, new)

Upsert(table, new) ==
    IF \E i \in DOMAIN table : Key(table[i]) = Key(new)
    THEN [i \in DOMAIN table |->
            IF Key(table[i]) = Key(new) THEN Overwrite(table[i], new)
            ELSE table[i]]
    ELSE Append(table, new)

\* INSERT INTO v85_history ...
InsertHistory_mut(table, new) ==
    IF \E i \in DOMAIN table : table[i] = new THEN table ELSE Append(table, new)

InsertHistory(table, new) == Append(table, new)

\* Rows of a table compared without ids: the same rows, the same number of
\* times.
Count(table, r) == Cardinality({i \in DOMAIN table : table[i] = r})

SameRows(t1, t2) ==
    /\ Len(t1) = Len(t2)
    /\ \A r \in Range(t1) \cup Range(t2) : Count(t1, r) = Count(t2, r)

SameStore(s1, s2) ==
    /\ SameRows(s1.v85, s2.v85)
    /\ SameRows(s1.v85_history, s2.v85_history)

-----------------------------------------------------------------------------
(* The directory entries and file contents the model draws from *)

Date1 == <<"2", "0", "2", "6", "0", "1", "0", "1">>

NameC1 == V85 \o Date1 \o <<"_", "1">> \o DOT_CSV
\* the same name with a newline at its end: CURRENT_RE matches it too
NameC1nl == NameC1 \o <<"\n">>
\* the shape of a current file, division digit 9
NameC9 == V85 \o Date1 \o <<"_", "9">> \o DOT_CSV
\* a file left under the older v86_ name
NameOld == V86 \o Date1 \o <<"_", "1">> \o DOT_CSV
NameH1 == V85_HISTORY \o Date1 \o <<"_", "1">> \o DOT_CSV
NameH2 == V85_HISTORY \o Date1 \o <<"_", "2">> \o DOT_CSV
NameOldH1 == V86_HISTORY \o Date1 \o <<"_", "1">> \o DOT_CSV

Names == {NameC1, NameC1nl, NameC9, NameOld, NameH1, NameH2}

Odin == <<"O", "d", "i", "n">>
Thor == <<"T", "h", "o", "r">>

HeaderCurrent ==
    <<COL_startnummer, COL_hastnamn, COL_kusk, COL_tranare, COL_v85pct,
      COL_v_odds, COL_vagn>>

HeaderHistory ==
    <<COL_hastnamn, COL_datum, COL_bana, COL_kusk, COL_placering,
      COL_distans_spar, COL_KM_tid, COL_skor, COL_odds, COL_pris, COL_vagn>>

\* Odin at odds 3.00 and Thor
CurA ==
    <<HeaderCurrent,
      <<<<"1">>, Odin, <<"a">>, <<"b">>, <<"9">>, <<"3", ".", "0", "0">>, <<"c">>>>,
      <<<<"2">>, Thor, <<"d">>, <<"e">>, <<"7">>, <<"8", ".", "0", "0">>, <<"f">>>>>>

\* Odin again (written with a leading blank), every other value changed
CurB ==
    <<HeaderCurrent,
      <<<<"4">>, <<" ">> \o Odin, <<"g">>, <<"h">>, <<"8">>,
        <<"3", ".", "5", "0">>, <<"i">>>>>>

\* two columns only; the horse name repeated, then left empty; an empty
\* record; a short record
CurC ==
    <<<<COL_hastnamn, COL_v_odds>>,
      <<Odin, <<"3", ".", "0", "0">>>>,
      <<>>,
      <<Odin \o <<" ">>, <<"3", ".", "5", "0">>>>,
      <<<<>>, <<"5", ".", "0", "0">>>>,
      <<<<>>>>>>

D1201 == <<"2", "0", "2", "5", "-", "1", "2", "-", "0", "1">>
D1101 == <<"2", "0", "2", "5", "-", "1", "1", "-", "0", "1">>

HistRec(name, datum, plac) ==
    <<name, datum, <<"S">>, <<"k">>, plac, <<"2", ":", "1">>, <<"1", "4">>,
      <<"c">>, <<"3", ".", "0", "0">>, <<"5">>, <<"v">>>>

\* two results of Odin
HistA == <<HeaderHistory, HistRec(Odin, D1201, <<"1">>), HistRec(Odin, D1101, <<"2">>)>>

\* the first result of Odin once more, twice, and one of Thor
HistB ==
    <<HeaderHistory, HistRec(Odin, D1201, <<"1">>), HistRec(Odin, D1201, <<"1">>),
      HistRec(Thor, D1101, <<"3">>)>>

\* data records without a header record before them
HistNoHeader == <<HistRec(Odin, D1201, <<"1">>), HistRec(Odin, D1101, <<"2">>)>>

Absent == [kind |-> "absent", readable |-> FALSE, lines |-> <<>>]
Directory == [kind |-> "dir", readable |-> FALSE, lines |-> <<>>]
\* a file whose open(), decoding or csv parsing raises
Unreadable == [kind |-> "file", readable |-> FALSE, lines |-> <<>>]
File(lines) == [kind |-> "file", readable |-> TRUE, lines |-> lines]

\* What the operator may put under each name.
EntryOptions(n) ==
    CASE n = NameC1 ->
            {Absent, Directory, Unreadable, File(<<>>), File(CurA), File(CurC)}
      [] n = NameC1nl -> {Absent, File(CurB)}
      [] n = NameH1 -> {Unreadable, File(HistNoHeader), File(HistA), File(HistB)}
      [] n = NameH2 -> {Absent, File(HistB)}
      [] n = NameC9 -> {File(CurB)}
      [] n = NameOld -> {Absent}

EmptyDir == [n \in Names |-> Absent]

BaseDir == [EmptyDir EXCEPT ![NameC1] = File(CurA), ![NameH1] = File(HistA)]

\* every name present, the two current files sharing the key of Odin
FullDir ==
    [n \in Names |->
        CASE n = NameC1 -> File(CurA)
          [] n = NameC1nl -> File(CurB)
          [] n = NameH1 -> File(HistA)
          [] n = NameH2 -> File(HistB)
          [] n = NameC9 -> File(CurB)
          [] n = NameOld -> Unreadable]

InitDirs == {EmptyDir, BaseDir, FullDir}

EmptyStore == [v85 |-> <<>>, v85_history |-> <<>>]

\* A store filled by imports made under the older v86_ names.
LegacyStore ==
    [v85 |->
        <<[datum |-> yyyymmdd_to_iso(Date1), avd |-> <<"1">>,
           startnummer |-> <<"1">>, hastnamn |-> Odin, kusk |-> <<"a">>,
           tranare |-> <<"b">>, v85_procent |-> <<"9">>,
           v_odds |-> <<"2", ".", "5", "0">>, vagn |-> <<"c">>,
           source_file |-> NameOld],
          [datum |-> yyyymmdd_to_iso(Date1), avd |-> <<"1">>,
           startnummer |-> <<"3">>, hastnamn |-> <<"L", "o", "k", "e">>,
           kusk |-> <<"a">>, tranare |-> <<"b">>, v85_procent |-> <<"2">>,
           v_odds |-> <<"9", ".", "0", "0">>, vagn |-> <<"c">>,
           source_file |-> NameOld]>>,
     v85_history |->
        <<[datum |-> D1101, avd |-> <<"1">>, hastnamn |-> Odin,
           bana |-> <<"S">>, kusk |-> <<"k">>, placering |-> <<"2">>,
           distans_spor |-> <<"2", ":", "1">>, km_tid |-> <<"1", "4">>,
           skor |-> <<"c">>, odds |-> <<"3", ".", "0", "0">>,
           pris |-> <<"5">>, vagn |-> <<"v">>, source_file |-> NameOldH1]>>]

InitStores == {EmptyStore, LegacyStore}

-----------------------------------------------------------------------------
(* import_csv_to_db.py: main, load_current, load_history *)

NoKeys == [k \in {} |-> 0]

NoStep == [kind |-> "none", file |-> <<>>, before |-> <<>>, finished |-> FALSE]

NoRun == [valid |-> FALSE, imported |-> NoKeys, store |-> EmptyStore]

ZeroStats == [cur_files |-> 0, cur_rows |-> 0, hist_files |-> 0, hist_rows |-> 0]

\* sorted(p for p in csv_dir.iterdir() if p.is_file() and CURRENT_RE.match(p.name))
ListCurrent_mut(d) == Sorted({n \in DOMAIN d : d[n].kind = "file" /\ ~HISTORY_RE(n)})

ListCurrent(d) == Sorted({n \in DOMAIN d : d[n].kind = "file" /\ CURRENT_RE(n)})

\* sorted(p for p in csv_dir.iterdir() if p.is_file() and HISTORY_RE.match(p.name))
ListHistory(d) == Sorted({n \in DOMAIN d : d[n].kind = "file" /\ HISTORY_RE(n)})

\* Whether lines 29-31 (79-81) raise for the file: open(), decoding, csv
OpenFails_mut(entry) == FALSE

OpenFails(entry) == ~entry.readable

\* The committed store once the `with sqlite3.connect(...)` block is left by
\* an exception: the connection rolls back.
OnException_mut(committed, working) == working

OnException(committed, working) == committed

\* main() is not running / is running.
Idle == pc \in {"idle", "done", "failed"}

Running == ~Idle

RetUnchanged == UNCHANGED retVars

\* An exception leaves main(): nothing after it runs.
Fail(cause) ==
    /\ pc' = "failed"
    /\ failCause' = cause
    /\ db' = OnException(db, tx)
    /\ tx' = db'
    /\ lastWrite' = lastWriteDb
    /\ step' = NoStep
    /\ files' = <<>>
    /\ rows' = <<>>
    /\ UNCHANGED <<dir, dirOk, skip_history, stats, pre, issued, processed,
                   lastWriteDb, prev, runs, edits>>
    /\ RetUnchanged

\* main(), lines 114-124: parse the arguments, connect.
StartRun(skip) ==
    /\ Idle
    /\ runs < MaxRuns
    /\ runs' = runs + 1
    /\ skip_history' = skip
    /\ pc' = "load_current"
    /\ tx' = db
    /\ pre' = db
    /\ issued' = 0
    /\ processed' = {}
    /\ failCause' = "none"
    /\ stats' = ZeroStats
    /\ files' = <<>>
    /\ p' = <<>>
    /\ rows' = <<>>
    /\ step' = NoStep
    /\ lastWrite' = lastWriteDb
    /\ UNCHANGED <<dir, dirOk, db, lastWriteDb, prev, edits>>
    /\ RetUnchanged

\* load_current, lines 19-20
LoadCurrentList ==
    /\ pc = "load_current"
    /\ IF ~dirOk
       THEN Fail("dir") /\ UNCHANGED p
       ELSE /\ files' = ListCurrent(dir)
            /\ stats' = [stats EXCEPT !.cur_files = Len(files')]
            /\ pc' = "cur_next"
            /\ UNCHANGED <<dir, dirOk, skip_history, db, tx, p, rows, pre,
                           issued, processed, failCause, lastWrite,
                           lastWriteDb, step, prev, runs, edits>>
            /\ RetUnchanged

\* The loop iteration of p is over.
EndIteration ==
    /\ files' = Tail(files)
    /\ processed' = processed \cup {p}
    /\ step' = [step EXCEPT !.finished = TRUE]

\* load_current, lines 22-31: the next file is opened and read.
CurOpen ==
    /\ pc = "cur_next"
    /\ files # <<>>
    /\ IF OpenFails(dir[Head(files)])
       THEN /\ Fail("read")
            /\ p' = Head(files)
       ELSE /\ p' = Head(files)
            /\ rows' = DictReader(dir[Head(files)].lines)
            /\ step' = [kind |-> "current", file |-> Head(files),
                        before |-> tx.v85, finished |-> FALSE]
            /\ pc' = "cur_delete"
            /\ UNCHANGED <<dir, dirOk, skip_history, db, tx, files, stats,
                           pre, issued, processed, failCause, lastWrite,
                           lastWriteDb, prev, runs, edits>>
            /\ RetUnchanged

\* load_current, line 33
CurDelete ==
    /\ pc = "cur_delete"
    /\ tx' = [tx EXCEPT !.v85 = DeleteBySource(tx.v85, p, CurrentLegacy(p))]
    /\ issued' = issued + 1
    /\ IF rows = <<>>
       THEN /\ EndIteration
            /\ pc' = "cur_next"
       ELSE /\ pc' = "cur_insert"
            /\ UNCHANGED <<files, processed, step>>
    /\ UNCHANGED <<dir, dirOk, skip_history, db, p, rows, stats, pre,
                   failCause, lastWrite, lastWriteDb, prev, runs, edits>>
    /\ RetUnchanged

\* load_current, lines 35-64: one round of `for r in rows`
CurInsert ==
    /\ pc = "cur_insert"
    /\ LET new == CurrentParams(yyyymmdd_to_iso(CurrentDate(p)), CurrentAvd(p),
                                Head(rows), p)
       IN  /\ tx' = [tx EXCEPT !.v85 = Upsert(tx.v85, new)]
           /\ lastWrite' = [k \in DOMAIN lastWrite \cup {Key(new)} |->
                               IF k = Key(new) THEN new ELSE lastWrite[k]]
    /\ issued' = issued + 1
    /\ stats' = [stats EXCEPT !.cur_rows = @ + 1]
    /\ rows' = Tail(rows)
    /\ IF Tail(rows) = <<>>
       THEN /\ EndIteration
            /\ pc' = "cur_next"
       ELSE /\ pc' = "cur_insert"
            /\ UNCHANGED <<files, processed, step>>
    /\ UNCHANGED <<dir, dirOk, skip_history, db, p, pre, failCause,
                   lastWriteDb, prev, runs, edits>>
    /\ RetUnchanged

\* load_current, line 66, and main, lines 126-127
CurReturn ==
    /\ pc = "cur_next"
    /\ files = <<>>
    /\ pc' = IF skip_history THEN "commit" ELSE "load_history"
    /\ UNCHANGED <<dir, dirOk, skip_history, db, tx, files, p, rows, stats,
                   pre, issued, processed, failCause, lastWrite, lastWriteDb,
                   step, prev, runs, edits>>
    /\ RetUnchanged

\* load_history, lines 70-71
LoadHistoryList ==
    /\ pc = "load_history"
    /\ IF ~dirOk
       THEN Fail("dir") /\ UNCHANGED p
       ELSE /\ files' = ListHistory(dir)
            /\ stats' = [stats EXCEPT !.hist_files = Len(files')]
            /\ pc' = "hist_next"
            /\ UNCHANGED <<dir, dirOk, skip_history, db, tx, p, rows, pre,
                           issued, processed, failCause, lastWrite,
                           lastWriteDb, step, prev, runs, edits>>
            /\ RetUnchanged

\* load_history, lines 73-81
HistOpen ==
    /\ pc = "hist_next"
    /\ files # <<>>
    /\ IF OpenFails(dir[Head(files)])
       THEN /\ Fail("read")
            /\ p' = Head(files)
       ELSE /\ p' = Head(files)
            /\ rows' = DictReader(dir[Head(files)].lines)
            /\ step' = [kind |-> "history", file |-> Head(files),
                        before |-> tx.v85_history, finished |-> FALSE]
            /\ pc' = "hist_delete"
            /\ UNCHANGED <<dir, dirOk, skip_history, db, tx, files, stats,
                           pre, issued, processed, failCause, lastWrite,
                           lastWriteDb, prev, runs, edits>>
            /\ RetUnchanged

\* load_history, line 83
HistDelete ==
    /\ pc = "hist_delete"
    /\ tx' = [tx EXCEPT !.v85_history =
                 DeleteBySource(tx.v85_history, p, HistoryLegacy(p))]
    /\ issued' = issued + 1
    /\ IF rows = <<>>
       THEN /\ EndIteration
            /\ pc' = "hist_next"
       ELSE /\ pc' = "hist_insert"
            /\ UNCHANGED <<files, processed, step>>
    /\ UNCHANGED <<dir, dirOk, skip_history, db, p, rows, stats, pre,
                   failCause, lastWrite, lastWriteDb, prev, runs, edits>>
    /\ RetUnchanged

\* load_history, lines 85-109: one round of `for r in rows`
HistInsert ==
    /\ pc = "hist_insert"
    /\ tx' = [tx EXCEPT !.v85_history =
                 InsertHistory(tx.v85_history,
                               HistoryParams(HistoryAvd(p), Head(rows), p))]
    /\ issued' = issued + 1
    /\ stats' = [stats EXCEPT !.hist_rows = @ + 1]
    /\ rows' = Tail(rows)
    /\ IF Tail(rows) = <<>>
       THEN /\ EndIteration
            /\ pc' = "hist_next"
       ELSE /\ pc' = "hist_insert"
            /\ UNCHANGED <<files, processed, step>>
    /\ UNCHANGED <<dir, dirOk, skip_history, db, p, pre, failCause,
                   lastWrite, lastWriteDb, prev, runs, edits>>
    /\ RetUnchanged

\* load_history, line 111
HistReturn ==
    /\ pc = "hist_next"
    /\ files = <<>>
    /\ pc' = "commit"
    /\ UNCHANGED <<dir, dirOk, skip_history, db, tx, files, p, rows, stats,
                   pre, issued, processed, failCause, lastWrite, lastWriteDb,
                   step, prev, runs, edits>>
    /\ RetUnchanged

\* main, line 129, and the normal exit of the `with` block
Commit ==
    /\ pc = "commit"
    /\ db' = tx
    /\ lastWriteDb' = lastWrite
    /\ pc' = "done"
    /\ prev' = [last |-> [valid |-> TRUE,
                          imported |-> [f \in processed |-> dir[f]],
                          store |-> tx],
                before |-> prev.last]
    /\ UNCHANGED <<dir, dirOk, skip_history, tx, files, p, rows, stats, pre,
                   issued, processed, failCause, lastWrite, step, runs, edits>>
    /\ RetUnchanged

\* con.execute() or con.commit() raises sqlite3.Error (the database is
\* locked, a table is missing, the disk is full).
StoreError ==
    /\ pc \in {"cur_delete", "cur_insert", "hist_delete", "hist_insert", "commit"}
    /\ Fail("store")
    /\ UNCHANGED p

-----------------------------------------------------------------------------
(* The operator's changes to csv_dir between two runs *)

PutEntry(n, e) ==
    /\ Idle
    /\ edits < MaxEdits
    /\ e # dir[n]
    /\ dir' = [dir EXCEPT ![n] = e]
    /\ edits' = edits + 1
    /\ pc' = "idle"
    /\ step' = NoStep
    /\ UNCHANGED <<dirOk, skip_history, db, tx, files, p, rows, stats, pre,
                   issued, processed, failCause, lastWrite, lastWriteDb, prev,
                   runs>>
    /\ RetUnchanged

\* csv_dir is removed or unmounted, or put back.
SetDirOk ==
    /\ Idle
    /\ edits < MaxEdits
    /\ dirOk' = ~dirOk
    /\ edits' = edits + 1
    /\ pc' = "idle"
    /\ step' = NoStep
    /\ UNCHANGED <<dir, skip_history, db, tx, files, p, rows, stats, pre,
                   issued, processed, failCause, lastWrite, lastWriteDb, prev,
                   runs>>
    /\ RetUnchanged

-----------------------------------------------------------------------------
(* The loops as functions of the table *)

\* load_current, lines 35-64, for the rows of one file
RECURSIVE UpsertAll(_, _, _)
UpsertAll(table, name, rws) ==
    IF rws = <<>> THEN table
    ELSE UpsertAll(Upsert(table,
                          CurrentParams(yyyymmdd_to_iso(CurrentDate(name)),
                                        CurrentAvd(name), Head(rws), name)),
                   name, Tail(rws))

\* load_current, lines 23-64: one file
ImportCurrentFile(table, name, lines) ==
    UpsertAll(DeleteBySource(table, name, CurrentLegacy(name)), name,
              DictReader(lines))

\* load_history, lines 85-109, for the rows of one file
RECURSIVE InsertAll(_, _, _)
InsertAll(table, name, rws) ==
    IF rws = <<>> THEN table
    ELSE InsertAll(InsertHistory(table,
                                 HistoryParams(HistoryAvd(name), Head(rws), name)),
                   name, Tail(rws))

\* load_history, lines 74-109: one file
ImportHistoryFile(table, name, lines) ==
    InsertAll(DeleteBySource(table, name, HistoryLegacy(name)), name,
              DictReader(lines))

\* load_current, lines 22-64, over the sorted files
RECURSIVE LoadCurrent(_, _, _)
LoadCurrent(table, fs, d) ==
    IF fs = <<>> THEN table
    ELSE LoadCurrent(ImportCurrentFile(table, Head(fs), d[Head(fs)].lines),
                     Tail(fs), d)

\* load_history, lines 73-109, over the sorted files
RECURSIVE LoadHistory(_, _, _)
LoadHistory(table, fs, d) ==
    IF fs = <<>> THEN table
    ELSE LoadHistory(ImportHistoryFile(table, Head(fs), d[Head(fs)].lines),
                     Tail(fs), d)

\* main, lines 124-129, when nothing raises
RunResult(store, d, skip) ==
    [v85 |-> LoadCurrent(store.v85, ListCurrent(d), d),
     v85_history |-> IF skip THEN store.v85_history
                     ELSE LoadHistory(store.v85_history, ListHistory(d), d)]

RetIdle ==
    /\ race = <<>>
    /\ results = <<>>
    /\ cap = 0
    /\ by_horse = NoKeys
    /\ out = <<>>
    /\ ri = 0
    /\ rpc = "off"

Init ==
    /\ dir \in InitDirs
    /\ dirOk = TRUE
    /\ skip_history = FALSE
    /\ pc = "idle"
    /\ db \in InitStores
    /\ tx = db
    /\ files = <<>>
    /\ p = <<>>
    /\ rows = <<>>
    /\ stats = ZeroStats
    /\ pre = db
    /\ issued = 0
    /\ processed = {}
    /\ failCause = "none"
    /\ lastWrite = NoKeys
    /\ lastWriteDb = NoKeys
    /\ step = NoStep
    /\ prev = [last |-> NoRun, before |-> NoRun]
    /\ runs = 0
    /\ edits = 0
    /\ RetIdle

Next ==
    \/ \E skip \in BOOLEAN : StartRun(skip)
    \/ LoadCurrentList
    \/ CurOpen
    \/ CurDelete
    \/ CurInsert
    \/ CurReturn
    \/ LoadHistoryList
    \/ HistOpen
    \/ HistDelete
    \/ HistInsert
    \/ HistReturn
    \/ Commit
    \/ StoreError
    \/ \E n \in Names : \E e \in EntryOptions(n) : PutEntry(n, e)
    \/ SetDirOk

Spec == Init /\ [][Next]_vars

-----------------------------------------------------------------------------
(* Properties of the import *)

Recognized(n) == CURRENT_RE(n) \/ HISTORY_RE(n)

\* The table of the kind of file F
TableOf(store, F) == IF HISTORY_RE(F) THEN store.v85_history ELSE store.v85

FromSource(table, name) == SelectSeq(table, LAMBDA r : r.source_file = name)

\* The rows of the file under name n, as the reader returns them
RowsOf(n) == DictReader(dir[n].lines)

\* The parameters load_current passes for record r of file n
ParamsOf(n, r) ==
    CurrentParams(yyyymmdd_to_iso(CurrentDate(n)), CurrentAvd(n), r, n)

\* The two latest committed runs imported the same files with the same content.
SameImportTwice ==
    /\ prev.before.valid
    /\ prev.last.imported = prev.before.imported

\* C1: importing an unchanged file a second time leaves the store as the
\* first import left it (ids aside): for each file, importing it again right
\* after its import changes no row, and a run that repeats the previous run
\* over the same files commits the same rows.
C1_Idempotent ==
    /\ (step.finished /\ step.kind = "current") =>
          SameRows(ImportCurrentFile(tx.v85, step.file, dir[step.file].lines),
                   tx.v85)
    /\ (step.finished /\ step.kind = "history") =>
          SameRows(ImportHistoryFile(tx.v85_history, step.file,
                                     dir[step.file].lines),
                   tx.v85_history)
    /\ (pc = "done" /\ SameImportTwice) =>
          SameStore(prev.last.store, prev.before.store)

\* two runs in a row imported the same current and history files, unchanged
C1_Witness ==
    /\ pc = "done"
    /\ SameImportTwice
    /\ \E f \in DOMAIN prev.last.imported : CURRENT_RE(f)
    /\ \E f \in DOMAIN prev.last.imported : HISTORY_RE(f)
    /\ db.v85 # <<>>
    /\ db.v85_history # <<>>
    /\ step.finished

UniqueKeys(table) ==
    \A i, j \in DOMAIN table : Key(table[i]) = Key(table[j]) => i = j

LatestWins(table, last) ==
    \A i \in DOMAIN table :
        Key(table[i]) \in DOMAIN last => table[i] = last[Key(table[i])]

\* C2: the v85 table never holds two rows with the same (datum, avd,
\* hastnamn), and a row whose key was written holds the values and the
\* source_file of the latest write of that key; both through the connection
\* and as committed.
C2_OneRowPerKey ==
    /\ UniqueKeys(tx.v85)
    /\ UniqueKeys(db.v85)
    /\ LatestWins(tx.v85, lastWrite)
    /\ LatestWins(db.v85, lastWriteDb)

\* a file that repeats a horse name and leaves one empty has been imported
\* over rows of other files
C2_Witness ==
    /\ pc = "done"
    /\ \E i, j \in DOMAIN RowsOf(NameC1) :
          /\ i < j
          /\ Key(ParamsOf(NameC1, RowsOf(NameC1)[i]))
                = Key(ParamsOf(NameC1, RowsOf(NameC1)[j]))
    /\ \E r \in Range(db.v85) : r.hastnamn = <<>>
    /\ \E r \in Range(db.v85) : r.hastnamn = Odin /\ r.source_file = NameC1
    /\ Len(pre.v85) >= 2

\* The legacy alias as the claim words it: the name with v85_ replaced by v86_
Alias(F) == Replace1(F, V85, V86)

NoAliasRows(store, F) ==
    \A r \in Range(TableOf(store, F)) : r.source_file # Alias(F)

\* C3: once a file has been imported, no row of its table is attributed to
\* its legacy alias: through the connection for the files of the running
\* run, and in the committed store for the files of the committed runs.
C3_LegacySuperseded ==
    /\ failCause = "none" => \A F \in processed : NoAliasRows(tx, F)
    /\ \A F \in DOMAIN prev.last.imported \cup DOMAIN prev.before.imported :
          NoAliasRows(db, F) /\ NoAliasRows(tx, F)

\* rows attributed to the alias were there before the file's import, and the
\* file's rows are there after it
C3_Witness ==
    /\ step.finished
    /\ \E r \in Range(step.before) : r.source_file = Alias(step.file)
    /\ FromSource(TableOf(tx, step.file), step.file) # <<>>
    /\ NoAliasRows(tx, step.file)

\* The parameters of the last record of file n that has key k
LastParams(n, k) ==
    LET rs == RowsOf(n)
        i == CHOOSE i \in DOMAIN rs :
                /\ Key(ParamsOf(n, rs[i])) = k
                /\ \A j \in DOMAIN rs : Key(ParamsOf(n, rs[j])) = k => j <= i
    IN  ParamsOf(n, rs[i])

KeysOf(n) == {Key(ParamsOf(n, r)) : r \in Range(RowsOf(n))}

\* C4: when a current file has been imported over a row that another file
\* wrote for one of its keys, the table holds exactly one row for that key,
\* with the values of the imported file and its name as source_file.
C4_UpsertAcrossFiles ==
    (step.finished /\ step.kind = "current") =>
        \A k \in KeysOf(step.file) :
            (\E old \in Range(step.before) :
                Key(old) = k /\ old.source_file # step.file)
            => /\ Cardinality({i \in DOMAIN tx.v85 : Key(tx.v85[i]) = k}) = 1
               /\ \E i \in DOMAIN tx.v85 : tx.v85[i] = LastParams(step.file, k)

\* Odin of another, still present, file with other odds was overwritten
C4_Witness ==
    /\ step.finished
    /\ step.kind = "current"
    /\ \E old \in Range(step.before) :
          /\ old.hastnamn = Odin
          /\ old.source_file \in Names \ {step.file, Alias(step.file)}
          /\ dir[old.source_file].kind = "file"
          /\ \E r \in Range(tx.v85) :
                /\ Key(r) = Key(old)
                /\ r.source_file = step.file
                /\ r.v_odds # old.v_odds

\* C5: after the import of a history file the table holds as many rows
\* attributed to it as the file has records, however often it was imported,
\* and the rows attributed to any other file (its legacy alias aside) are
\* the ones that were there before; at the end of a run this holds of every
\* history file of the run.
C5_HistoryAppend ==
    /\ (step.finished /\ step.kind = "history") =>
          /\ Len(FromSource(tx.v85_history, step.file)) = Len(RowsOf(step.file))
          /\ SelectSeq(tx.v85_history,
                       LAMBDA r : r.source_file \notin {step.file, Alias(step.file)})
               = SelectSeq(step.before,
                           LAMBDA r : r.source_file \notin {step.file, Alias(step.file)})
    /\ pc = "done" =>
          \A F \in processed :
              HISTORY_RE(F) =>
                  Len(FromSource(db.v85_history, F)) = Len(RowsOf(F))

\* the same two history files, both with results of Odin, imported by two
\* runs in a row
C5_Witness ==
    /\ pc = "done"
    /\ SameImportTwice
    /\ {NameH1, NameH2} \subseteq processed
    /\ \A F \in {NameH1, NameH2} :
          \E r \in Range(db.v85_history) :
              r.source_file = F /\ r.hastnamn = Odin

\* C6: nothing of a run is committed before its end: while the run is under
\* way and after it failed the committed store is the one the run found, and
\* after it ended well the committed store holds all its changes.
C6_RunAtomic ==
    /\ Running => db = pre
    /\ pc = "failed" => db = pre
    /\ pc = "done" => db = tx /\ SameStore(db, RunResult(pre, dir, skip_history))

\* a run failed after whole files had been imported through the connection
C6_Witness ==
    /\ pc = "failed"
    /\ processed # {}
    /\ issued >= 3
    /\ db # EmptyStore

\* The files a run is to import
RunFiles ==
    {n \in Names : dir[n].kind = "file" /\
                   (CURRENT_RE(n) \/ (~skip_history /\ HISTORY_RE(n)))}

\* C7 as stated: a recognized file that is unreadable or has no header
\* record (an empty file) makes the run fail.
C7_Original ==
    pc = "done" =>
        \A n \in RunFiles : dir[n].readable /\ dir[n].lines # <<>>

\* C7 as amended: an unreadable file among the files of the run makes the
\* run fail with nothing committed, the rows attributed to it still in the
\* store; a readable file without a header record is imported as a file
\* without rows, so that the rows attributed to it are deleted.
C7_UnreadableIsFatal ==
    /\ pc = "done" => \A n \in RunFiles : dir[n].readable
    /\ (pc = "failed" /\ failCause = "read") =>
          /\ ~dir[p].readable
          /\ p \in RunFiles
          /\ db = pre
    /\ pc = "done" =>
          \A n \in RunFiles :
              dir[n].lines = <<>> => FromSource(TableOf(db, n), n) = <<>>

\* a run failed on an unreadable file after statements of that run, and the
\* rows an earlier run attributed to the file are still committed
C7_Witness ==
    /\ pc = "failed"
    /\ failCause = "read"
    /\ issued > 0
    /\ FromSource(TableOf(db, p), p) # <<>>

\* The directory without the entries whose names match neither pattern
OnlyRecognized(d) == [n \in DOMAIN d |-> IF Recognized(n) THEN d[n] ELSE Absent]

\* C9: an entry whose name matches neither pattern is never among the files
\* of a loop, is not counted, is never what a run fails on, has no row
\* attributed to it written, and the run commits what it would commit
\* without the entry.
C9_UnrecognizedIgnored ==
    /\ \A n \in Range(files) \cup processed : Recognized(n)
    /\ Running => (p = <<>> \/ Recognized(p))
    /\ stats.cur_files <= Cardinality({n \in Names : CURRENT_RE(n)})
    /\ stats.hist_files <= Cardinality({n \in Names : HISTORY_RE(n)})
    /\ (pc = "failed" /\ failCause = "read") => Recognized(p)
    /\ \A r \in Range(tx.v85) \cup Range(tx.v85_history) :
          Recognized(r.source_file) \/ r \in Range(pre.v85) \cup Range(pre.v85_history)
    /\ pc = "done" =>
          /\ SameStore(db, RunResult(pre, OnlyRecognized(dir), skip_history))
          /\ stats.cur_files = Len(ListCurrent(OnlyRecognized(dir)))

\* a run ended well beside an unreadable file of another name and a file
\* with division digit 9
C9_Witness ==
    /\ pc = "done"
    /\ dir[NameOld] = Unreadable
    /\ dir[NameC9].kind = "file"
    /\ stats.cur_files >= 1
    /\ stats.cur_rows >= 1
    /\ db # pre

\* A name of the shape of a current file whose division digit is not 1-8
BadDivision(n) ==
    /\ Len(n) = 18
    /\ SubSeq(n, 1, 4) = V85
    /\ \A i \in 5..12 : n[i] \in Digits
    /\ n[13] = "_"
    /\ n[14] \in {"0", "9"}
    /\ SubSeq(n, 15, 18) = DOT_CSV

\* C10 as stated: a file with a division digit outside 1-8, or a directory
\* that cannot be reached, makes the run fail before any statement.
C10_Original ==
    (\/ ~dirOk
     \/ \E n \in Names : dir[n].kind = "file" /\ BadDivision(n))
    => /\ pc # "done"
       /\ Running => issued = 0

\* C10 as amended: a directory that cannot be reached makes the run fail
\* before any statement is issued; a file with a division digit outside 1-8
\* is no file of the run: it is never imported and never what a run fails on.
C10_DirFatalBadDivisionIgnored ==
    /\ (~dirOk /\ pc \notin {"idle", "load_current"}) =>
          pc = "failed" /\ failCause = "dir"
    /\ (pc = "failed" /\ failCause = "dir") => issued = 0 /\ db = pre /\ ~dirOk
    /\ \A n \in Range(files) \cup processed : ~BadDivision(n)
    /\ Running => ~BadDivision(p)
    /\ (pc = "failed" /\ failCause = "read") => ~BadDivision(p)

\* a run over an unreachable directory failed, the store filled and the
\* directory holding a current file and a file with division digit 9
C10_Witness ==
    /\ pc = "failed"
    /\ failCause = "dir"
    /\ dir[NameC1].kind = "file"
    /\ dir[NameC9].kind = "file"
    /\ db # EmptyStore

\* The trimmed horse names occurring in the file under name n
TrimmedNames(n) == {Field(r, COL_hastnamn) : r \in Range(RowsOf(n))}

\* The row load_current writes for the last record of file n named h
LastNamed(n, h) ==
    LastParams(n, <<yyyymmdd_to_iso(CurrentDate(n)), CurrentAvd(n), h>>)

\* The rows attributed to current file F are one row per trimmed horse name
\* of F, with the date and division of F's name and the values of the last
\* record of F with that name.
RowsAreTheFiles(store, F) ==
    LET own == FromSource(store.v85, F)
    IN  /\ \A h \in TrimmedNames(F) :
              /\ Cardinality({i \in DOMAIN own : own[i].hastnamn = h}) = 1
              /\ \E i \in DOMAIN own : own[i] = LastNamed(F, h)
        /\ \A i \in DOMAIN own : own[i].hastnamn \in TrimmedNames(F)

\* C11: after a run that ended well, for every current file F the run
\* imported, the v85 rows attributed to F are exactly one row per trimmed
\* horse name of F, with the date and division of F's name and the values of
\* the last record of F with that name; the files imported after F in the run
\* have neither removed nor re-attributed them.
C11_PerFileRows ==
    pc = "done" =>
        \A F \in processed : CURRENT_RE(F) => RowsAreTheFiles(db, F)

\* No two current files of the run have the same date and division.
OneFilePerRace ==
    \A F, G \in processed :
        (/\ CURRENT_RE(F) /\ CURRENT_RE(G)
         /\ CurrentDate(F) = CurrentDate(G)
         /\ CurrentAvd(F) = CurrentAvd(G)) => F = G

\* The statement of C11 holds of the runs whose current files all differ in
\* date or division, and right after the import of each file.
C11_WhenOneFilePerRace ==
    /\ OneFilePerRace => C11_PerFileRows
    /\ (step.finished /\ step.kind = "current") => RowsAreTheFiles(tx, step.file)

\* a run ended well over a current file that repeats a horse name, its rows
\* in the store
C11_OneFileWitness ==
    /\ pc = "done"
    /\ OneFilePerRace
    /\ \E F \in processed :
          /\ CURRENT_RE(F)
          /\ Len(RowsOf(F)) > Cardinality(TrimmedNames(F))
          /\ FromSource(db.v85, F) # <<>>

-----------------------------------------------------------------------------
(* get_v85_history.py: collect_history_rows *)

DEFAULT_MAX_HISTORY_PER_HORSE == 5

\* horse.get("id") of a start without an id
NoId == 0

HorseIds == {1, 2}

\* str(horse_id)
IdText(id) == <<<<"0", "1", "2", "3", "4", "5", "6", "7", "8", "9">>[id + 1]>>

\* The starts a race is drawn from: horse.name and horse.id
HorsePool ==
    {[name |-> Odin, id |-> 1],
     [name |-> Thor, id |-> 2],
     [name |-> <<" ">> \o Odin, id |-> 2],
     [name |-> None, id |-> 1],
     [name |-> Thor, id |-> NoId]}

Dates == {D1101, D1201}

\* lines 123-129: the name the rows of a start carry
HorseName(start) ==
    IF Strip(OrEmpty(start.name)) = <<>>
    THEN <<"h", "o", "r", "s", "e", "_">> \o IdText(start.id)
    ELSE Strip(OrEmpty(start.name))

\* lines 134-153: one row per fetched record.  rec is the position of the
\* record in the response and stands for the formatted columns of the row
\* (bana, kusk, placering, ...), which are copied from that record.
HorseRows(start, recs) ==
    [i \in DOMAIN recs |->
        [hastnamn |-> HorseName(start), datum |-> recs[i], rec |-> i]]

\* line 156: list.sort(key=datum, reverse=True); the sort is stable, so rows
\* of equal datum keep their order.
RECURSIVE SortNewestFirst(_)
SortNewestFirst(rws) ==
    IF rws = <<>> THEN <<>>
    ELSE LET sorted == SortNewestFirst(SubSeq(rws, 1, Len(rws) - 1))
             x == rws[Len(rws)]
             \* x goes behind every row that is not older than x
             k == Cardinality({i \in DOMAIN sorted :
                                  ~StrLess(sorted[i].datum, x.datum)})
         IN  SubSeq(sorted, 1, k) \o <<x>> \o SubSeq(sorted, k + 1, Len(sorted))

\* horse_rows[:max_history_per_horse]
Truncate(rws, n) == SubSeq(rws, 1, IF n < Len(rws) THEN n ELSE Len(rws))

\* lines 121-157: one round of `for start in race.get("starts", [])`
CollectStart ==
    /\ rpc = "starts"
    /\ ri < Len(race)
    /\ ri' = ri + 1
    /\ LET start == race[ri + 1]
       IN  IF start.id = NoId
           THEN by_horse' = by_horse
           ELSE by_horse' =
                  [n \in DOMAIN by_horse \cup {HorseName(start)} |->
                      IF n = HorseName(start)
                      THEN Truncate(SortNewestFirst(HorseRows(start, results[start.id])),
                                    cap)
                      ELSE by_horse[n]]
    /\ UNCHANGED <<race, results, cap, out, rpc>>
    /\ UNCHANGED importVars

\* lines 159-161 for the sorted names
RECURSIVE Extend(_, _)
Extend(names, d) ==
    IF names = <<>> THEN <<>> ELSE d[Head(names)] \o Extend(Tail(names), d)

\* lines 159-163
Assemble ==
    /\ rpc = "starts"
    /\ ri = Len(race)
    /\ out' = Extend(Sorted(DOMAIN by_horse), by_horse)
    /\ rpc' = "done"
    /\ UNCHANGED <<race, results, cap, by_horse, ri>>
    /\ UNCHANGED importVars

ImportIdle ==
    /\ dir = EmptyDir
    /\ dirOk = TRUE
    /\ skip_history = FALSE
    /\ pc = "off"
    /\ db = EmptyStore
    /\ tx = EmptyStore
    /\ files = <<>>
    /\ p = <<>>
    /\ rows = <<>>
    /\ stats = ZeroStats
    /\ pre = EmptyStore
    /\ issued = 0
    /\ processed = {}
    /\ failCause = "none"
    /\ lastWrite = NoKeys
    /\ lastWriteDb = NoKeys
    /\ step = NoStep
    /\ prev = [last |-> NoRun, before |-> NoRun]
    /\ runs = 0
    /\ edits = 0

RecordLists == UNION {[1..n -> Dates] : n \in 0..MaxRecords}

InitRet ==
    /\ ImportIdle
    /\ race \in UNION {[1..n -> HorsePool] : n \in 0..MaxStarts}
    /\ results \in [HorseIds -> RecordLists]
    /\ cap \in (1..MaxCap) \cup {DEFAULT_MAX_HISTORY_PER_HORSE}
    /\ by_horse = NoKeys
    /\ out = <<>>
    /\ ri = 0
    /\ rpc = "starts"

NextRet == CollectStart \/ Assemble

SpecRet == InitRet /\ [][NextRet]_vars

-----------------------------------------------------------------------------
(* Properties of collect_history_rows *)

Min(a, b) == IF a < b THEN a ELSE b

StrLeq(s, t) == s = t \/ StrLess(s, t)

\* The positions of `out` that hold rows named like the horse of start h
RowsFor(h) == {i \in DOMAIN out : out[i].hastnamn = HorseName(h)}

\* The rows of `out` at positions I are k rows of the records recs with
\* the greatest dates, newest first, equal dates in the order of recs.
NewestOf(I, recs, k) ==
    /\ Cardinality(I) = k
    /\ \A i \in I : out[i].rec \in DOMAIN recs /\ out[i].datum = recs[out[i].rec]
    /\ \A i, j \in I :
          i < j =>
              \/ StrLess(out[j].datum, out[i].datum)
              \/ out[i].datum = out[j].datum /\ out[i].rec < out[j].rec
    /\ \A i \in I : \A m \in DOMAIN recs :
          (\A j \in I : out[j].rec # m) =>
              \/ StrLess(recs[m], out[i].datum)
              \/ recs[m] = out[i].datum /\ out[i].rec < m

\* C8: for every start of the race whose horse has an id, the returned rows
\* hold min(cap, number of fetched records) rows of that horse, the ones with
\* the greatest dates, newest first and equal dates in input order; and the
\* horses follow each other in ascending order of name.
C8_RetentionCap ==
    rpc = "done" =>
        /\ \A s \in DOMAIN race :
              race[s].id # NoId =>
                  NewestOf(RowsFor(race[s]), results[race[s].id],
                           Min(cap, Len(results[race[s].id])))
        /\ \A i, j \in DOMAIN out :
              i < j => StrLeq(out[i].hastnamn, out[j].hastnamn)

\* The horses with an id have names of their own.
DistinctNames ==
    \A s, t \in DOMAIN race :
        (race[s].id # NoId /\ race[t].id # NoId /\ race[s].id # race[t].id)
        => HorseName(race[s]) # HorseName(race[t])

\* C8, supporting fact: the claim holds of the races in which no two horses
\* with different ids carry the same name.
C8_WhenNamesDistinct == DistinctNames => C8_RetentionCap

====
